---- MODULE Spec2Model ----
(***************************************************************************)
(* The flat-file Record Store of the backend (ProjectService and           *)
(* ArticleService), with the admin route handlers that call it.            *)
(*                                                                         *)
(* One behaviour follows one of the two singletons; they share no state    *)
(* (different module, different file), so `store` is chosen once in Init.  *)
(* A service call runs without interruption up to its first await (Node    *)
(* runs one callback at a time); the await of fs.promises.writeFile is the *)
(* only suspension point of add/update/delete, and its completion is a     *)
(* separate step.                                                          *)
(***************************************************************************)
EXTENDS Integers, Sequences, FiniteSets, Bags, TLC

VARIABLES
    store,        \* "projects" | "articles": which singleton this behaviour follows
    records,      \* this.projects / this.articles: the in-memory list
    initialized,  \* this.initialized
    initPc,       \* position of the init() call in flight: "idle" | "create" | "read"
    file,         \* DATA_FILE_PATH on disk: [state: "missing"|"corrupt"|"ok", text]
    pending,      \* the bag of calls suspended at `await this._save()`
    ops,          \* number of add/update/delete calls made so far
    oks,          \* number of them that returned a value after their write
    last,         \* the step just taken, with what its call returned or answered
    idlog,        \* history: id -> "fresh" | "assigned" (by add) | "returned" (the add returned its record) | "retired" (assigned, then deleted)
    env,          \* process.env: the variables that are set, by name
    adminAuthDef, \* which of the two definitions of adminAuth in adminAuth.js is the live one
    allowedIpsStr, \* adminAuth.js: the cached allowlist string
    allowedIps,   \* adminAuth.js: the cached allowlist
    req,          \* the HTTP request being handled, with how far it got and its response
    contactHits,  \* contactLimiter's store: key -> hits in the key's window, and the window's end
    emailSubmissions, \* validators.js: lower-cased email -> times of the submissions counted
    now,          \* Date.now()
    served,       \* number of contact requests received so far
    call          \* a call of a function of validators.js: its argument, its results

storeVars == <<store, records, initialized, initPc, file, pending, ops, oks, last, idlog>>

gateVars == <<env, adminAuthDef, allowedIpsStr, allowedIps>>

contactVars == <<contactHits, emailSubmissions, now, served>>

vars == <<storeVars, gateVars, req, contactVars, call>>

----------------------------------------------------------------------------
(* Bounds of the model *)

MaxId == 2        \* add is not issued once the next id would exceed it
MaxPending == 2   \* calls suspended in _save at the same time
MaxOps == 3       \* add/update/delete calls per behaviour
MaxContacts == 3  \* contact requests per behaviour
MaxContactHits == 2  \* CONTACT_RATE_LIMIT_MAX as configured: submissions per key and window
MaxSubmissions == 6  \* contact requests per behaviour under the default configuration
MaxPieces == 3    \* pieces of a string given to a function of validators.js

----------------------------------------------------------------------------
(* Values *)

Stores == {"projects", "articles"}

\* JavaScript's undefined, as the value of a variable or of an own property
Undefined == "undefined"

\* new Date().toISOString()
Now == "now"

\* an object with no property; also "no value" in `last`
NoRec == [k \in {} |-> Undefined]

\* The optional data field of each record shape: Project.sketchfabId,
\* Article.date.
OptKey(s) == IF s = "articles" THEN "date" ELSE "sketchfabId"

\* an object with a title and the optional field
WithOpt(s, title, opt) ==
    [k \in {"title", OptKey(s)} |-> IF k = "title" THEN title ELSE opt]

\* value || fallback, value && ...
Truthy(v) == v # Undefined /\ v # ""

\* req.body of a POST that passes the handler's required-field checks; a
\* field the body lacks is destructured as undefined
PostBodies(s) == { WithOpt(s, "t1", opt) : opt \in {"v1", Undefined} }

\* projectData (sketchfabId passed on as it is) / articleData (date || now)
PostData(s, body) ==
    IF s = "articles"
    THEN WithOpt(s, body["title"],
                 IF Truthy(body[OptKey(s)]) THEN body[OptKey(s)] ELSE Now)
    ELSE WithOpt(s, body["title"], body[OptKey(s)])

\* req.body of PUT /api/admin/articles/:id
PutBodies == { [title |-> t] : t \in {"t2", Undefined} }

\* updateData of the PUT handler: ...(title && { title }), field by field
PutUpdateData(body) ==
    [k \in {x \in DOMAIN body : Truthy(body[x])} |-> body[k]]

\* updateData handed to updateProject, which no route calls: a field is
\* absent, set, or undefined
UpdateInputs == { [title |-> t] : t \in {"t2", Undefined} }

\* the :id of a request; MaxId + 1 is never assigned
IdInputs == 1 .. (MaxId + 1)

----------------------------------------------------------------------------
(* Pure functions of the services *)

Ids(list) == { list[i].id : i \in DOMAIN list }

\* Math.max(...ids)
MathMax(S) == CHOOSE m \in S : \A x \in S : x <= m

\* a variant of newId: the length of the list plus one
NewIdByLength(list) == Len(list) + 1

\* newId
NewId(list) ==
    IF Len(list) > 0 THEN MathMax(Ids(list)) + 1 ELSE 1

\* a variant of the spread that skips the properties of b that are undefined
SpreadDefined(a, b) ==
    [k \in DOMAIN a \cup {x \in DOMAIN b : b[x] # Undefined} |->
        IF k \in DOMAIN b /\ b[k] # Undefined THEN b[k] ELSE a[k]]

\* { ...a, ...b }: every own property of b, undefined ones included, over a
Spread(a, b) ==
    [k \in DOMAIN a \cup DOMAIN b |-> IF k \in DOMAIN b THEN b[k] ELSE a[k]]

\* newProject / newArticle
NewRecord(s, id, data) ==
    IF s = "articles"
    THEN Spread(Spread([id |-> id], data),
                [date |-> IF "date" \in DOMAIN data /\ Truthy(data["date"])
                          THEN data["date"] ELSE Now])
    ELSE Spread([id |-> id], data)

\* a variant of findIndex whose "not found" is taken for an index, as the -1
\* of JavaScript is by splice: the last element
FindIndexOrLast(list, id) ==
    IF \E i \in DOMAIN list : list[i].id = id
    THEN CHOOSE i \in DOMAIN list :
            /\ list[i].id = id
            /\ \A j \in DOMAIN list : list[j].id = id => i <= j
    ELSE Len(list)

\* findIndex: the first index holding the id, 0 for JavaScript's -1
FindIndex(list, id) ==
    IF \E i \in DOMAIN list : list[i].id = id
    THEN CHOOSE i \in DOMAIN list :
            /\ list[i].id = id
            /\ \A j \in DOMAIN list : list[j].id = id => i <= j
    ELSE 0

\* getProjectById / getArticleById: find, as <<record>>, <<>> for undefined
GetById(list, id) ==
    IF FindIndex(list, id) = 0 THEN <<>> ELSE <<list[FindIndex(list, id)]>>

\* a variant of push: unshift, the record put in front
Unshift(list, rec) == <<rec>> \o list

\* this.projects.push(newProject)
Push(list, rec) == Append(list, rec)

\* a variant of the assignment: splice(index, 0, rec), the old record kept
InsertAt(list, index, rec) ==
    SubSeq(list, 1, index - 1) \o <<rec>> \o SubSeq(list, index, Len(list))

\* this.projects[index] = updatedProject
SetAt(list, index, rec) == [list EXCEPT ![index] = rec]

\* a variant of splice: splice(index), everything from the index on removed
SpliceToEnd(list, index) == SubSeq(list, 1, index - 1)

\* this.projects.splice(index, 1): the list left behind
Splice(list, index) ==
    SubSeq(list, 1, index - 1) \o SubSeq(list, index + 1, Len(list))

\* JSON.stringify of one record: properties whose value is undefined are dropped
StringifyRecord(r) ==
    [k \in {x \in DOMAIN r : x = "id" \/ r[x] # Undefined} |-> r[k]]

\* JSON.stringify(this.projects, null, 2), as the list of objects it denotes
Stringify(list) == [i \in DOMAIN list |-> StringifyRecord(list[i])]

\* JSON.parse(data) of a text written by Stringify
Parse(text) == text

----------------------------------------------------------------------------
(* Disk *)

Missing == [state |-> "missing", text |-> <<>>]
Corrupt == [state |-> "corrupt", text |-> <<>>]
Ok(text) == [state |-> "ok", text |-> text]

\* the seeded data file: one record, id 1
Seed(s) ==
    << IF s = "articles"
       THEN [id |-> 1, title |-> "t1", date |-> "v1"]
       ELSE [id |-> 1, title |-> "t1"] >>

InitialFiles(s) == {Missing, Corrupt, Ok(Seed(s))}

----------------------------------------------------------------------------
(* Calls in flight and the trace of the last step *)

\* a call suspended in _save: the text handed to writeFile, the value the call
\* will return, and whether the list was left alone since
Call(op, id, snap, ret, clean) ==
    [op |-> op, id |-> id, snap |-> snap, ret |-> ret, clean |-> clean]

Copies(bag, e) == IF e \in DOMAIN bag THEN bag[e] ELSE 0

\* Another mutation, or init's assignment, changed the list while these calls
\* were suspended.
Disturbed(bag) ==
    [e \in {[x EXCEPT !.clean = FALSE] : x \in DOMAIN bag} |->
        Copies(bag, e) + Copies(bag, [e EXCEPT !.clean = TRUE])]

\* the handler's answer to each outcome of a service call; 0 where no route
\* reaches the call (admin.js has no PUT route for projects)
Status(s, op, outcome) ==
    IF op = "update" /\ s = "projects" THEN 0
    ELSE IF outcome = "throw" THEN 500
    ELSE IF outcome = "null" THEN 404
    ELSE IF op = "add" THEN 201
    ELSE 200

\* The step just taken: the call it belongs to, its argument, what the call
\* did ("await": suspended in _save; "null", "ok", "throw": returned), the
\* value returned, the handler's status (0: no response at this step), whether
\* the list was left alone while the call was suspended, and whether the call
\* repeats the call before it.
Step(act, op, id, arg, outcome, ret, status, clean) ==
    [act |-> act, op |-> op, id |-> id, arg |-> arg, outcome |-> outcome,
     ret |-> ret, status |-> status, clean |-> clean,
     repeat |-> act = "update" /\ last.act = "update" /\ last.id = id /\ last.arg = arg]

----------------------------------------------------------------------------
(* Admin Gate: values *)

\* A string read as a comma-separated list: its items in order, each with its
\* text and whether blanks surround the text. '' is one item with no text.
Item(text, padded) == [text |-> text, padded |-> padded]

EmptyStr == << Item("", FALSE) >>

\* the string '*'
Wildcard == << Item("*", FALSE) >>

\* ip.trim()
Trim(item) == item.text

\* the values of ADMIN_ALLOWED_IPS: '', '*', '10.0.0.1', ' 10.0.0.1 , * '
AllowLists ==
    { EmptyStr, Wildcard, << Item("10.0.0.1", FALSE) >>,
      << Item("10.0.0.1", TRUE), Item("*", TRUE) >> }

EnvKeys == {"NODE_ENV", "ADMIN_ALLOWED_IPS", "ADMIN_TOKEN"}

EnvWith(keys, nodeEnv, allow, token) ==
    [k \in keys |-> CASE k = "NODE_ENV" -> nodeEnv
                      [] k = "ADMIN_ALLOWED_IPS" -> allow
                      [] OTHER -> token]

\* process.env as the server may find it: each variable unset or set
Envs ==
    { EnvWith(keys, nodeEnv, allow, token) :
        keys \in SUBSET EnvKeys,
        nodeEnv \in {"production", "development"},
        allow \in AllowLists,
        token \in {"", "secret"} }

\* process.env.NODE_ENV, process.env.ADMIN_TOKEN
EnvGet(e, k) == IF k \in DOMAIN e THEN e[k] ELSE Undefined

\* req.ip
ClientIps == {"127.0.0.1", "10.0.0.1", "10.0.0.2"}

\* req.headers.authorization as its words, split at single blanks; <<>> when
\* the header is absent. <<"Bearer">> is 'Bearer', <<"Bearer", "">> is 'Bearer '.
AuthHeaders ==
    { <<>>, <<"Bearer">>, <<"Basic", "secret">>, <<"Bearer", "">>,
      <<"Bearer", "secret">>, <<"Bearer", "wrong">>,
      <<"Bearer", "admin_secret_token">> }

Routers == {"projects", "articles"}

Methods == {"GET", "POST", "PUT", "DELETE"}

\* An admin request as it arrives, and what its handling adds: the index of
\* the stage it waits for (0: none), the status answered (0: none yet), whether
\* adminAuth called next(), whether it read the Authorization header, the
\* security event it logged, whether multer parsed the body, and the store
\* operation the handler invoked.
AdminReq(router, method, ip, auth) ==
    [router |-> router, method |-> method, ip |-> ip, auth |-> auth,
     stage |-> 1, status |-> 0, nexted |-> FALSE, authRead |-> FALSE,
     event |-> "none", uploaded |-> FALSE, storeOp |-> "none"]

\* no request yet
NoReq == [AdminReq("none", "none", "none", <<>>) EXCEPT !.stage = 0]

AdminReqs ==
    { AdminReq(router, method, ip, auth) :
        router \in Routers, method \in Methods, ip \in ClientIps, auth \in AuthHeaders }

\* the gate of a server that got no admin request
GateAtRest ==
    /\ env = EnvWith({}, "", EmptyStr, "")
    /\ adminAuthDef = "second"
    /\ allowedIpsStr = EmptyStr
    /\ allowedIps = <<>>
    /\ req = NoReq

----------------------------------------------------------------------------
(* Contact pipeline: values *)

\* A string of a request, by what the pipeline's patterns can see of it: its
\* text, its length, the classes of the characters it holds, and the
\* substrings it holds that a pattern of detectAttackPatterns or of isEmail
\* looks for ("sqlword": one of SELECT .. SCRIPT as a whole word, any case;
\* "email": the whole text is an address isEmail accepts).
Str(text, len, chars, marks) ==
    [text |-> text, len |-> len, chars |-> chars, marks |-> marks, esc |-> FALSE]

NameAna == Str("Ana Silva", 9, {"letter", "space"}, {})
NameDashes == Str("Ana--Maria", 10, {"letter", "hyphen"}, {"--"})

EmailAna == Str("ana@example.com", 15, {"letter", "at", "dot"}, {"email"})
EmailUpper == Str("Ana@Example.com", 15, {"letter", "at", "dot"}, {"email"})
EmailDrop ==
    Str("a@b.com'; DROP TABLE users;--", 29,
        {"letter", "at", "dot", "apos", "semi", "space", "hyphen"}, {"sqlword", "--"})

PhoneParens == Str("(11) 98765-4321", 15, {"paren", "digit", "space", "hyphen"}, {})

MessageOk ==
    Str("Preciso de um orcamento para minha obra", 39, {"letter", "space"}, {})
MessageShort == Str("Oi", 2, {"letter"}, {})
MessageUpdate ==
    Str("Please update me about my quote", 31, {"letter", "space"}, {"sqlword"})

MessageIframe ==
    Str("<iframe>Preciso de um orcamento</iframe>", 40,
        {"lt", "gt", "slash", "letter", "space"}, {"<iframe>..</iframe>"})

NoteTraversal == Str("../../etc/passwd", 16, {"dot", "slash", "letter"}, {"../"})

\* checkEmailRateLimit(email, 5, 3600000)
EmailMax == 5

\* max of contactLimiter with CONTACT_RATE_LIMIT_MAX unset
ContactMaxDefault == 5
EmailWindowMs == 3600000

\* String.prototype.toLowerCase, on the texts above
ToLowerCase(s) ==
    [s EXCEPT !.text = IF @ = "Ana@Example.com" THEN "ana@example.com" ELSE @]

\* {}
EmptyObj == [k \in {} |-> NameAna]

\* typeof value === 'string'; every other value of a request is an object
IsString(value) == "text" \in DOMAIN value

Body(name, email, message) == [name |-> name, email |-> email, message |-> message]

WithPhone(body, phone) == [k \in DOMAIN body \cup {"phone"} |->
                             IF k = "phone" THEN phone ELSE body[k]]

\* a body with one more key, whose value is an object holding an object
WithNested(body, value) == [k \in DOMAIN body \cup {"extra"} |->
                              IF k = "extra" THEN [deep |-> [note |-> value]] ELSE body[k]]

\* req.body after express.json(): the fields of the form, some of them
\* missing, and whatever else the client put there
ContactBodies ==
    { Body(NameAna, EmailAna, MessageOk),
      Body(NameAna, EmailUpper, MessageOk),
      WithPhone(Body(NameAna, EmailAna, MessageOk), PhoneParens),
      Body(NameDashes, EmailAna, MessageUpdate),
      Body(NameAna, EmailAna, MessageShort),
      Body(NameAna, EmailAna, MessageIframe),
      Body(NameAna, EmailDrop, MessageOk),
      WithNested(Body(NameAna, EmailAna, MessageOk), NoteTraversal),
      [name |-> NameAna, message |-> MessageOk] }

\* req.query
ContactQueries == { EmptyObj, [ref |-> NoteTraversal] }

\* the form as the page sends it
PlainBody == Body(NameAna, EmailAna, MessageOk)

ContactIps == {"10.0.0.1", "10.0.0.2"}

\* the instants at which something happens, in milliseconds
Times == {0, 3598500, 3600000}

\* A contact request as it arrives, and what its handling adds: the index of
\* the stage it waits for (0: none), the stages run so far, the body as the
\* validators left it, the fields they refused, the status answered (0: none
\* yet), the messageId and retryAfter of the answer (0: none), whether
\* checkEmailRateLimit counted the submission, how far the Notification
\* Sender got, and what became of the confirmation email.
ContactReq(ip, query, body) ==
    [ip |-> ip, query |-> query, received |-> body, body |-> body,
     stage |-> 1, ran |-> <<>>, errors |-> {}, status |-> 0,
     messageId |-> 0, retryAfter |-> 0, counted |-> FALSE,
     sender |-> "none", confirmation |-> "none"]

ContactReqs ==
    { ContactReq(ip, EmptyObj, body) : ip \in ContactIps, body \in ContactBodies }
    \cup { ContactReq(ip, query, PlainBody) : ip \in ContactIps, query \in ContactQueries }

\* `${ip}:${email}` of a request, for the keys contactLimiter can see
LimiterKeys == ContactIps \X {"ana@example.com", "Ana@Example.com",
                              "a@b.com'; DROP TABLE users;--", "unknown"}

\* no function of validators.js is being called on its own
NoCall == [fn |-> "none"]

\* the pipeline of a server that got no contact request
ContactAtRest ==
    /\ contactHits = [k \in LimiterKeys |-> [hits |-> 0, resetTime |-> 0]]
    /\ emailSubmissions = [k \in {} |-> <<>>]
    /\ now = 0
    /\ served = 0

----------------------------------------------------------------------------
(* State after construction *)

Init ==
    /\ store \in Stores
    /\ records = <<>>
    /\ initialized = FALSE
    /\ initPc = "idle"
    /\ file \in InitialFiles(store)
    /\ pending = EmptyBag
    /\ ops = 0
    /\ oks = 0
    /\ last = Step("new", "none", 0, NoRec, "none", NoRec, 0, TRUE)
    /\ idlog = [i \in 1 .. (MaxId + 1) |-> "fresh"]
    /\ GateAtRest
    /\ ContactAtRest
    /\ call = NoCall

----------------------------------------------------------------------------
(* _save: the write starts with the text of the list as it is now *)

\* a variant of the call of _save: made before the list is changed
SaveStartedBefore(op, id, ret, list) ==
    Disturbed(pending) (+) SetToBag({Call(op, id, Stringify(records), ret, TRUE)})

SaveStarted(op, id, ret, list) ==
    Disturbed(pending) (+) SetToBag({Call(op, id, Stringify(list), ret, TRUE)})

CanMutate == BagCardinality(pending) < MaxPending /\ ops < MaxOps

\* addProject / addArticle up to `await this._save()`
Add(data) ==
    /\ CanMutate
    /\ NewId(records) <= MaxId
    /\ LET rec == NewRecord(store, NewId(records), data)
           list == Push(records, rec)
       IN /\ records' = list
          /\ pending' = SaveStarted("add", rec.id, rec, list)
          /\ idlog' = [idlog EXCEPT ![rec.id] = "assigned"]
          /\ last' = Step("add", "add", rec.id, data, "await", rec, 0, TRUE)
    /\ ops' = ops + 1
    /\ UNCHANGED <<call, store, initialized, initPc, file, oks>>

\* updateProject / updateArticle up to `await this._save()`, or to `return null`
Update(id, updateData) ==
    LET index == FindIndex(records, id) IN
    IF index = 0
    THEN /\ last' = Step("update", "update", id, updateData, "null", NoRec,
                         Status(store, "update", "null"), TRUE)
         /\ ops < MaxOps
         /\ ops' = ops + 1
         /\ UNCHANGED <<call, store, records, initialized, initPc, file, pending, oks, idlog>>
    ELSE /\ CanMutate
         /\ LET old == records[index]
                updated == Spread(old, updateData)
                list == SetAt(records, index, updated)
                ret == [updated |-> updated, old |-> old]
            IN /\ records' = list
               /\ pending' = SaveStarted("update", id, ret, list)
               /\ last' = Step("update", "update", id, updateData, "await", ret, 0, TRUE)
         /\ ops' = ops + 1
         /\ UNCHANGED <<call, store, initialized, initPc, file, oks, idlog>>

\* deleteProject / deleteArticle up to `await this._save()`, or to `return null`
Delete(id) ==
    LET index == FindIndex(records, id) IN
    IF index = 0
    THEN /\ last' = Step("delete", "delete", id, NoRec, "null", NoRec,
                         Status(store, "delete", "null"), TRUE)
         /\ ops < MaxOps
         /\ ops' = ops + 1
         /\ UNCHANGED <<call, store, records, initialized, initPc, file, pending, oks, idlog>>
    ELSE /\ CanMutate
         /\ LET deleted == records[index]
                list == Splice(records, index)
            IN /\ records' = list
               /\ pending' = SaveStarted("delete", id, deleted, list)
               /\ last' = Step("delete", "delete", id, NoRec, "await", deleted, 0, TRUE)
         /\ ops' = ops + 1
         /\ idlog' = [idlog EXCEPT ![id] = IF @ \in {"assigned", "returned"}
                                           THEN "retired" ELSE @]
         /\ UNCHANGED <<call, store, initialized, initPc, file, oks>>

\* the history of ids when the call c returns: an add that returns its record
\* while no delete of its id was performed marks the id
Returned(c) ==
    IF c.op = "add" /\ idlog[c.id] = "assigned"
    THEN [idlog EXCEPT ![c.id] = "returned"]
    ELSE idlog

\* a variant of the write: the list is stringified when the write ends
WriteOkLate(c) ==
    /\ file' = Ok(Stringify(records))
    /\ pending' = pending (-) SetToBag({c})
    /\ last' = Step("return", c.op, c.id, NoRec, "ok", c.ret,
                    Status(store, c.op, "ok"), c.clean)
    /\ oks' = oks + 1
    /\ idlog' = Returned(c)
    /\ UNCHANGED <<call, store, records, initialized, initPc, ops>>

\* writeFile resolves: the file holds the text handed to it, _save returns, the
\* call returns its value and the handler answers
WriteOk(c) ==
    /\ file' = Ok(c.snap)
    /\ pending' = pending (-) SetToBag({c})
    /\ last' = Step("return", c.op, c.id, NoRec, "ok", c.ret,
                    Status(store, c.op, "ok"), c.clean)
    /\ oks' = oks + 1
    /\ idlog' = Returned(c)
    /\ UNCHANGED <<call, store, records, initialized, initPc, ops>>

\* What a failed writeFile may leave on disk: the file as it was (the open
\* failed), or a truncated or partial text (the write failed after the open).
AfterFailedWrite(f) == {f, Corrupt}

\* a variant of the failure path: the list is reloaded from what the file holds
WriteFailRollback(c) ==
    /\ file' \in AfterFailedWrite(file)
    /\ records' = IF file.state = "ok" THEN Parse(file.text) ELSE <<>>
    /\ pending' = pending (-) SetToBag({c})
    /\ last' = Step("throw", c.op, c.id, NoRec, "throw", NoRec,
                    Status(store, c.op, "throw"), c.clean)
    /\ UNCHANGED <<call, store, initialized, initPc, ops, oks, idlog>>

\* writeFile rejects: _save throws 'Failed to save ... data', the call throws,
\* the handler's catch answers
WriteFail(c) ==
    /\ file' \in AfterFailedWrite(file)
    /\ pending' = pending (-) SetToBag({c})
    /\ last' = Step("throw", c.op, c.id, NoRec, "throw", NoRec,
                    Status(store, c.op, "throw"), c.clean)
    /\ UNCHANGED <<call, store, records, initialized, initPc, ops, oks, idlog>>

----------------------------------------------------------------------------
(* init *)

\* a variant of init without the early return: every call reads the file
InitCallAlways ==
    /\ initPc = "idle"
    /\ initPc' = IF store = "articles" /\ file.state = "missing"
                 THEN "create" ELSE "read"
    /\ last' = Step("init", "init", 0, NoRec, "await", NoRec, 0, TRUE)
    /\ UNCHANGED <<call, store, records, initialized, file, pending, ops, oks, idlog>>

\* init() up to its first await, or to its early return
InitCall ==
    /\ initPc = "idle"
    /\ IF initialized
       THEN initPc' = "idle"
       ELSE initPc' = IF store = "articles" /\ file.state = "missing"
                      THEN "create" ELSE "read"
    /\ last' = Step("init", "init", 0, NoRec, IF initialized THEN "ok" ELSE "await",
                    NoRec, 0, TRUE)
    /\ UNCHANGED <<call, store, records, initialized, file, pending, ops, oks, idlog>>

\* a variant of the catch block that rethrows: the flag stays false
InitCaughtRethrow ==
    /\ records' = <<>>
    /\ initialized' = FALSE
    /\ initPc' = "idle"
    /\ pending' = Disturbed(pending)
    /\ last' = Step("initDone", "init", 0, NoRec, "throw", NoRec, 0, TRUE)

\* the list and the flag as the catch block leaves them
InitCaught ==
    /\ records' = <<>>
    /\ initialized' = TRUE
    /\ initPc' = "idle"
    /\ pending' = Disturbed(pending)
    /\ last' = Step("initDone", "init", 0, NoRec, "caught", NoRec, 0, TRUE)

\* ArticleService.init: mkdir and writeFile(DATA_FILE_PATH, '[]') settle
InitCreate(fails) ==
    /\ initPc = "create"
    /\ IF fails
       THEN /\ InitCaught
            /\ file' \in AfterFailedWrite(file)
       ELSE /\ file' = Ok(<<>>)
            /\ initPc' = "read"
            /\ last' = Step("initCreate", "init", 0, NoRec, "await", NoRec, 0, TRUE)
            /\ UNCHANGED <<call, records, initialized, pending>>
    /\ UNCHANGED <<call, store, ops, oks, idlog>>

\* readFile settles; JSON.parse, the assignment of the list and of the flag
InitRead(fails) ==
    /\ initPc = "read"
    /\ IF fails \/ file.state # "ok"
       THEN InitCaught
       ELSE /\ records' = Parse(file.text)
            /\ initialized' = TRUE
            /\ initPc' = "idle"
            /\ pending' = Disturbed(pending)
            /\ last' = Step("initDone", "init", 0, NoRec, "ok", NoRec, 0, TRUE)
    /\ UNCHANGED <<call, store, file, ops, oks, idlog>>

----------------------------------------------------------------------------

(* The routes and the calls. The callers await init() before they call
   anything else (the store's contract), so a request meets a loaded store. *)

\* POST /api/admin/projects, POST /api/admin/articles
Post(body) == initialized /\ Add(PostData(store, body))

\* PUT /api/admin/articles/:id
Put(id, body) == initialized /\ store = "articles" /\ Update(id, PutUpdateData(body))

\* projectService.updateProject(id, updateData), called directly
UpdateProject(id, updateData) == initialized /\ store = "projects" /\ Update(id, updateData)

\* DELETE /api/admin/projects/:id, DELETE /api/admin/articles/:id
DeleteRoute(id) == initialized /\ Delete(id)

Next ==
    \/ InitCall /\ UNCHANGED <<call, gateVars, req, contactVars>>
    \/ \E fails \in BOOLEAN : InitCreate(fails) /\ UNCHANGED <<call, gateVars, req, contactVars>>
    \/ \E fails \in BOOLEAN : InitRead(fails) /\ UNCHANGED <<call, gateVars, req, contactVars>>
    \/ \E body \in PostBodies(store) : Post(body) /\ UNCHANGED <<call, gateVars, req, contactVars>>
    \/ \E id \in IdInputs, body \in PutBodies :
          Put(id, body) /\ UNCHANGED <<call, gateVars, req, contactVars>>
    \/ \E id \in IdInputs, updateData \in UpdateInputs :
          UpdateProject(id, updateData) /\ UNCHANGED <<call, gateVars, req, contactVars>>
    \/ \E id \in IdInputs : DeleteRoute(id) /\ UNCHANGED <<call, gateVars, req, contactVars>>
    \/ \E c \in BagToSet(pending) : WriteOk(c) /\ UNCHANGED <<call, gateVars, req, contactVars>>
    \/ \E c \in BagToSet(pending) : WriteFail(c) /\ UNCHANGED <<call, gateVars, req, contactVars>>

Spec == Init /\ [][Next]_vars

----------------------------------------------------------------------------
(* The stores when a caller does not await init(): addProject and addArticle
   do not look at the flag, so a call made while init is suspended in its file
   access runs on the list as the constructor left it. *)

\* POST /api/admin/projects, POST /api/admin/articles while init() is in flight
PostDuringInit(body) == initPc # "idle" /\ Add(PostData(store, body))

EarlyNext ==
    \/ Next
    \/ \E body \in PostBodies(store) :
          PostDuringInit(body) /\ UNCHANGED <<call, gateVars, req, contactVars>>

EarlySpec == Init /\ [][EarlyNext]_vars

----------------------------------------------------------------------------
(* Admin Gate: adminAuth *)

\* allowedIpsStr.split(',').map(ip => ip.trim()).filter(Boolean)
ParseAllowedIps(str) ==
    LET trimmed == [i \in DOMAIN str |-> Trim(str[i])]
    IN SelectSeq(trimmed, LAMBDA x : x # "")

\* allowedIps.includes(clientIp)
Includes(list, x) == \E i \in DOMAIN list : list[i] = x

\* the lazy initialisation: the string to use from now on
CachedStr(e, str) ==
    IF str = EmptyStr /\ "ADMIN_ALLOWED_IPS" \in DOMAIN e
    THEN e["ADMIN_ALLOWED_IPS"] ELSE str

\* the lazy initialisation: the list to use from now on
CachedIps(e, str, ips) ==
    IF str = EmptyStr /\ "ADMIN_ALLOWED_IPS" \in DOMAIN e
    THEN ParseAllowedIps(e["ADMIN_ALLOWED_IPS"]) ELSE ips

IsLocalhost(ip) == ip \in {"127.0.0.1", "::1", "::ffff:127.0.0.1"}

IsLocalDev(e) == EnvGet(e, "NODE_ENV") # "production"

\* bypassIpCheck; the second definition has none
BypassIpCheck(def, e, ip) == def = "first" /\ IsLocalDev(e) /\ IsLocalhost(ip)

\* a variant of the condition of the 403: an empty string lets every address in
IpBlockedFailOpen(def, e, str, ips, ip) ==
    /\ ~BypassIpCheck(def, e, ip)
    /\ str # Wildcard
    /\ str # EmptyStr
    /\ ~Includes(ips, ip)

\* the condition of the 403
IpBlocked(def, e, str, ips, ip) ==
    /\ ~BypassIpCheck(def, e, ip)
    /\ str # Wildcard
    /\ (str = EmptyStr \/ ~Includes(ips, ip))

\* a variant of the prefix test that takes any scheme
StartsWithScheme(auth) == Len(auth) >= 2

\* authHeader.startsWith('Bearer ')
StartsWithBearer(auth) == Len(auth) >= 2 /\ auth[1] = "Bearer"

\* authHeader.split(' ')[1]
TokenOf(auth) == auth[2]

\* a variant of expectedToken: the fallback token in every mode
ExpectedTokenWithFallback(def, e) ==
    IF Truthy(EnvGet(e, "ADMIN_TOKEN")) THEN EnvGet(e, "ADMIN_TOKEN")
    ELSE "admin_secret_token"

\* expectedToken
ExpectedToken(def, e) ==
    IF def = "first" /\ IsLocalDev(e)
    THEN (IF Truthy(EnvGet(e, "ADMIN_TOKEN")) THEN EnvGet(e, "ADMIN_TOKEN")
          ELSE "admin_secret_token")
    ELSE EnvGet(e, "ADMIN_TOKEN")

Verdict(status, event, authRead) ==
    [status |-> status, event |-> event, authRead |-> authRead]

\* a variant of adminAuth that looks at the token before the IP
AdminAuthTokenFirst(def, e, str, ips, r) ==
    IF r.auth = <<>> \/ ~StartsWithBearer(r.auth)
    THEN Verdict(401, "admin_auth_missing", TRUE)
    ELSE IF ~Truthy(ExpectedToken(def, e)) \/ TokenOf(r.auth) # ExpectedToken(def, e)
    THEN Verdict(401, "admin_auth_failed", TRUE)
    ELSE IF IpBlocked(def, e, str, ips, r.ip)
    THEN Verdict(403, "admin_ip_blocked", TRUE)
    ELSE Verdict(0, "none", TRUE)

\* adminAuth after the lazy initialisation: the status it answers (0: next()
\* called), the security event it logs, whether it read the header
AdminAuth(def, e, str, ips, r) ==
    IF IpBlocked(def, e, str, ips, r.ip)
    THEN Verdict(403, "admin_ip_blocked", FALSE)
    ELSE IF r.auth = <<>> \/ ~StartsWithBearer(r.auth)
    THEN Verdict(401, "admin_auth_missing", TRUE)
    ELSE IF ~Truthy(ExpectedToken(def, e)) \/ TokenOf(r.auth) # ExpectedToken(def, e)
    THEN Verdict(401, "admin_auth_failed", TRUE)
    ELSE Verdict(0, "none", TRUE)

----------------------------------------------------------------------------
(* Admin routers: what a request passes through *)

\* the routes each router defines
Routed(router, method) ==
    \/ method \in {"GET", "POST", "DELETE"}
    \/ router = "articles" /\ method = "PUT"

\* upload.single('imageFile') sits on the POST and PUT routes
HasUpload(router, method) == Routed(router, method) /\ method \in {"POST", "PUT"}

\* a variant of the chain in which multer is mounted ahead of the gate
StagesUploadFirst(router, method) ==
    IF HasUpload(router, method) THEN <<"upload", "adminAuth", "handler">>
    ELSE IF Routed(router, method) THEN <<"adminAuth", "handler">>
    ELSE <<"adminAuth", "notFound">>

\* router.use(adminAuth) comes first, then the route's own chain; a request
\* that matches no route leaves the router
Stages(router, method) ==
    IF HasUpload(router, method) THEN <<"adminAuth", "upload", "handler">>
    ELSE IF Routed(router, method) THEN <<"adminAuth", "handler">>
    ELSE <<"adminAuth", "notFound">>

\* the stage the request waits for
Stage(r) ==
    IF r.stage = 0 THEN "none" ELSE Stages(r.router, r.method)[r.stage]

\* what a handler may answer, and the store operation it has invoked by then
HandlerAnswers(method) ==
    CASE method = "GET" -> { [status |-> 200, storeOp |-> "list"] }
      [] method = "POST" -> { [status |-> 400, storeOp |-> "none"],
                              [status |-> 201, storeOp |-> "add"],
                              [status |-> 500, storeOp |-> "add"] }
      [] method = "PUT" -> { [status |-> s, storeOp |-> "update"] : s \in {200, 404, 500} }
      [] OTHER -> { [status |-> s, storeOp |-> "delete"] : s \in {200, 404, 500} }

\* a request reaches the router
AdminRequest(r) ==
    /\ req.stage = 0
    /\ req' = r
    /\ UNCHANGED <<call, storeVars, gateVars, contactVars>>

\* adminAuth runs: one synchronous call
RunAdminAuth ==
    /\ Stage(req) = "adminAuth"
    /\ allowedIpsStr' = CachedStr(env, allowedIpsStr)
    /\ allowedIps' = CachedIps(env, allowedIpsStr, allowedIps)
    /\ LET v == AdminAuth(adminAuthDef, env, allowedIpsStr', allowedIps', req)
       IN req' = [req EXCEPT !.status = v.status,
                             !.event = v.event,
                             !.authRead = v.authRead,
                             !.nexted = (v.status = 0),
                             !.stage = IF v.status = 0 THEN @ + 1 ELSE 0]
    /\ UNCHANGED <<call, storeVars, env, adminAuthDef, contactVars>>

\* multer parses the multipart body and stores the file; an error of the
\* parser or of the file filter ends the request
RunUpload(fails) ==
    /\ Stage(req) = "upload"
    /\ req' = [req EXCEPT !.uploaded = TRUE,
                          !.status = IF fails THEN 500 ELSE @,
                          !.stage = IF fails THEN 0 ELSE @ + 1]
    /\ UNCHANGED <<call, storeVars, gateVars, contactVars>>

\* the route handler runs to its response
RunHandler(answer) ==
    /\ Stage(req) = "handler"
    /\ req' = [req EXCEPT !.status = answer.status,
                          !.storeOp = answer.storeOp,
                          !.stage = 0]
    /\ UNCHANGED <<call, storeVars, gateVars, contactVars>>

\* no route of the router matches
RunNotFound ==
    /\ Stage(req) = "notFound"
    /\ req' = [req EXCEPT !.status = 404, !.stage = 0]
    /\ UNCHANGED <<call, storeVars, gateVars, contactVars>>

\* the store as the admin routers find it when no call is being made
StoreAtRest ==
    /\ store = "projects"
    /\ records = <<>>
    /\ initialized = FALSE
    /\ initPc = "idle"
    /\ file = Missing
    /\ pending = EmptyBag
    /\ ops = 0
    /\ oks = 0
    /\ last = Step("new", "none", 0, NoRec, "none", NoRec, 0, TRUE)
    /\ idlog = [i \in 1 .. (MaxId + 1) |-> "fresh"]

GateInit ==
    /\ StoreAtRest
    /\ env \in Envs
    /\ adminAuthDef \in {"first", "second"}
    /\ allowedIpsStr = EmptyStr
    /\ allowedIps = <<>>
    /\ req = NoReq
    /\ ContactAtRest
    /\ call = NoCall

GateNext ==
    \/ \E r \in AdminReqs : AdminRequest(r)
    \/ RunAdminAuth
    \/ \E fails \in BOOLEAN : RunUpload(fails)
    \/ \E answer \in HandlerAnswers(req.method) : RunHandler(answer)
    \/ RunNotFound

GateSpec == GateInit /\ [][GateNext]_vars

----------------------------------------------------------------------------
(* Admin Gate on a server whose environment changes while it runs: adminAuth
   reads process.env.ADMIN_ALLOWED_IPS at every request for as long as the
   string it keeps is empty. *)

\* the string ' '
Blank == << Item("", TRUE) >>

\* the values ADMIN_ALLOWED_IPS may be given while the server runs
LaterAllowLists == AllowLists \cup {Blank}

\* process.env.ADMIN_ALLOWED_IPS is assigned between two requests
SetAllowedIps(v) ==
    /\ req.stage = 0
    /\ env' = [k \in DOMAIN env \cup {"ADMIN_ALLOWED_IPS"} |->
                 IF k = "ADMIN_ALLOWED_IPS" THEN v ELSE env[k]]
    /\ env' # env
    /\ UNCHANGED <<call, storeVars, adminAuthDef, allowedIpsStr, allowedIps, req, contactVars>>

\* process.env.ADMIN_ALLOWED_IPS is deleted between two requests
UnsetAllowedIps ==
    /\ req.stage = 0
    /\ "ADMIN_ALLOWED_IPS" \in DOMAIN env
    /\ env' = [k \in DOMAIN env \ {"ADMIN_ALLOWED_IPS"} |-> env[k]]
    /\ UNCHANGED <<call, storeVars, adminAuthDef, allowedIpsStr, allowedIps, req, contactVars>>

\* the requests to one router: adminAuth looks neither at the router nor at
\* the method
ReloadReqs == { r \in AdminReqs : r.router = "projects" /\ r.method \in {"POST", "PUT"} }

ReloadNext ==
    \/ \E r \in ReloadReqs : AdminRequest(r)
    \/ RunAdminAuth
    \/ \E fails \in BOOLEAN : RunUpload(fails)
    \/ \E answer \in HandlerAnswers(req.method) : RunHandler(answer)
    \/ RunNotFound
    \/ \E v \in LaterAllowLists : SetAllowedIps(v)
    \/ UnsetAllowedIps

ReloadSpec == GateInit /\ [][ReloadNext]_vars

----------------------------------------------------------------------------
(* Contact pipeline: the limiters, the scan and the validators *)

\* windowMs of contactLimiter with CONTACT_RATE_LIMIT_WINDOW unset
ContactWindowMs == 60 * 60 * 1000

\* keyGenerator of contactLimiter: `${ip}:${email}`, the email as received
KeyGenerator(r) ==
    << r.ip, IF "email" \in DOMAIN r.received /\ r.received.email.len > 0
             THEN r.received.email.text ELSE "unknown" >>

\* express-rate-limit's count of one more request of a key: a window that is
\* over starts again with this request
Hit(entry, t) ==
    IF entry.hits = 0 \/ t >= entry.resetTime
    THEN [hits |-> 1, resetTime |-> t + ContactWindowMs]
    ELSE [entry EXCEPT !.hits = @ + 1]

\* detectAttackPatterns: the names of the patterns that match the text
DetectAttackPatterns(text) ==
    { attack \in {"sqlInjection", "xss", "pathTraversal", "commandInjection",
                  "noSqlInjection"} :
        CASE attack = "sqlInjection" ->
               text.marks \cap {"sqlword", "--", "/*", "*/"} # {} \/ "hash" \in text.chars
          [] attack = "xss" ->
               text.marks \cap {"<script", "javascript:", "on=", "alert(", "eval("} # {}
          [] attack = "pathTraversal" -> text.marks \cap {"../", "%2e%2e", ".%00"} # {}
          [] attack = "commandInjection" ->
               text.chars \cap {"semi", "amp", "pipe", "backtick", "dollar", "paren",
                                "brace", "bracket", "backslash"} # {}
          [] OTHER -> text.marks \cap {"${", "$where", "$gt", "$lt", "$ne", "$regex", "$eq"} # {} }

\* checkValue
CheckValue(value) == DetectAttackPatterns(value) # {}

\* a variant of checkObject that looks at the strings of the object itself only
CheckObjectShallow(obj) ==
    \E key \in DOMAIN obj : IsString(obj[key]) /\ CheckValue(obj[key])

\* checkObject: some string of the object, at any depth, matches a pattern
RECURSIVE CheckObject(_)
CheckObject(obj) ==
    \E key \in DOMAIN obj :
        IF IsString(obj[key]) THEN CheckValue(obj[key]) ELSE CheckObject(obj[key])

\* a field of the body is there and is not ''
Filled(body, field) == field \in DOMAIN body /\ body[field].len > 0

\* the chain of body('name')
NameOk(body) ==
    /\ Filled(body, "name")
    /\ body.name.len >= 2 /\ body.name.len <= 100
    /\ body.name.chars \subseteq {"letter", "space", "apos", "hyphen"}

\* the chain of body('email')
EmailOk(body) ==
    /\ Filled(body, "email")
    /\ "email" \in body.email.marks
    /\ body.email.len <= 254

\* the chain of body('phone'): optional, a missing or empty phone is skipped
PhoneOk(body) ==
    Filled(body, "phone") =>
        /\ body.phone.chars \subseteq {"digit", "space", "plus", "hyphen", "paren", "dot"}
        /\ body.phone.len >= 8 /\ body.phone.len <= 20

\* the chain of body('message')
MessageOk10(body) ==
    /\ Filled(body, "message")
    /\ body.message.len >= 10 /\ body.message.len <= 5000

\* the fields validationResult(req) reports
ValidationErrors(body) ==
    { field \in {"name", "email", "phone", "message"} :
        CASE field = "name" -> ~NameOk(body)
          [] field = "email" -> ~EmailOk(body)
          [] field = "phone" -> ~PhoneOk(body)
          [] OTHER -> ~MessageOk10(body) }

\* escape(): the text with & < > " ' / ` \ replaced by entities
Escape(s) ==
    [s EXCEPT !.esc = @ \/ s.chars \cap {"amp", "lt", "gt", "quote", "apos", "slash",
                                         "backtick", "backslash"} # {}]

\* normalizeEmail(): the address in lower case
NormalizeEmail(s) == IF "email" \in s.marks THEN ToLowerCase(s) ELSE s

\* sanitizeMessage: an element it removes leaves nothing of a text that is
\* that element; other < and > become entities
SanitizeMessage(s) ==
    IF "<iframe>..</iframe>" \in s.marks THEN Str("", 0, {}, {})
    ELSE [s EXCEPT !.esc = @ \/ s.chars \cap {"lt", "gt"} # {}]

\* req.body after the sanitizers of the four chains
Sanitized(body) ==
    [k \in DOMAIN body |->
        CASE k = "name" -> Escape(body[k])
          [] k = "email" -> NormalizeEmail(body[k])
          [] k = "phone" -> IF Filled(body, "phone") THEN Escape(body[k]) ELSE body[k]
          [] k = "message" -> SanitizeMessage(body[k])
          [] OTHER -> body[k]]

\* emailSubmissions.get(key) once the key is there
Submissions(subs, key) == IF key \in DOMAIN subs THEN subs[key] ELSE <<>>

\* submissions.filter(time => now - time < windowMs)
ValidSubmissions(submissions, t, windowMs) ==
    SelectSeq(submissions, LAMBDA time : t - time < windowMs)

\* map.set(key, value)
MapSet(map, key, value) ==
    [k \in DOMAIN map \cup {key} |-> IF k = key THEN value ELSE map[k]]

\* checkEmailRateLimit: the result, and emailSubmissions as the call leaves it
CheckEmailRateLimit(subs, email, maxSubmissions, windowMs, t) ==
    LET key == ToLowerCase(email).text
        submissions == Submissions(subs, key)
        validSubmissions == ValidSubmissions(submissions, t, windowMs)
    IN IF Len(validSubmissions) >= maxSubmissions
       THEN [allowed |-> FALSE, resetTime |-> validSubmissions[1] + windowMs,
             map |-> MapSet(subs, key, submissions)]
       ELSE [allowed |-> TRUE, resetTime |-> 0,
             map |-> MapSet(subs, key, Append(validSubmissions, t))]

\* a variant of the rounding: Math.floor
FloorSeconds(ms) == ms \div 1000

\* Math.ceil(ms / 1000), for ms > 0
CeilSeconds(ms) == (ms + 999) \div 1000

\* the checks sendContactEmail makes before it touches the transport
SenderAccepts(body) ==
    /\ Filled(body, "name") /\ Filled(body, "email") /\ Filled(body, "message")
    /\ "email" \in body.email.marks

----------------------------------------------------------------------------
(* Contact pipeline: POST /api/contact *)

\* a variant of the chain: the validators before the scan
ContactStagesValidationFirst ==
    << "contactLimiter", "contactValidationRules", "handleValidationErrors",
       "attackPatternCheck", "handler" >>

\* the chain of router.post('/')
ContactStages ==
    << "contactLimiter", "attackPatternCheck", "contactValidationRules",
       "handleValidationErrors", "handler" >>

\* the stage the contact request waits for; past the chain, the handler is
\* suspended in sendContactEmail
ContactStage(r) ==
    IF r.stage = 0 \/ "received" \notin DOMAIN r THEN "none"
    ELSE IF r.stage > Len(ContactStages) THEN "await"
    ELSE ContactStages[r.stage]

\* the request goes on to the next stage
Passed(r, name) == [r EXCEPT !.ran = Append(@, name), !.stage = @ + 1]

\* the request is answered
Answered(r, name, status) ==
    [r EXCEPT !.ran = Append(@, name), !.stage = 0, !.status = status]

\* a request reaches the router; the confirmation email of the request
\* before it has settled
Received(r, bound) ==
    /\ req.stage = 0
    /\ "confirmation" \in DOMAIN req => req.confirmation # "pending"
    /\ served < bound
    /\ req' = r
    /\ served' = served + 1
    /\ UNCHANGED <<call, storeVars, gateVars, contactHits, emailSubmissions, now>>

ContactRequest(r) == Received(r, MaxContacts)

\* time passes
Advance(t) ==
    /\ t > now
    /\ now' = t
    /\ UNCHANGED <<call, storeVars, gateVars, req, contactHits, emailSubmissions, served>>

\* contactLimiter, with the max given, counts the request under its key; its
\* answer carries the text '1 hour' as retryAfter, no number
Limiter(max) ==
    /\ ContactStage(req) = "contactLimiter"
    /\ LET key == KeyGenerator(req)
           entry == Hit(contactHits[key], now)
       IN /\ contactHits' = [contactHits EXCEPT ![key] = entry]
          /\ req' = IF entry.hits > max
                    THEN Answered(req, "contactLimiter", 429)
                    ELSE Passed(req, "contactLimiter")
    /\ UNCHANGED <<call, storeVars, gateVars, emailSubmissions, now, served>>

RunContactLimiter == Limiter(MaxContactHits)

\* attackPatternCheck: the query, then the body
RunAttackPatternCheck ==
    /\ ContactStage(req) = "attackPatternCheck"
    /\ req' = IF CheckObject(req.query) \/ CheckObject(req.body)
              THEN Answered(req, "attackPatternCheck", 403)
              ELSE Passed(req, "attackPatternCheck")
    /\ UNCHANGED <<call, storeVars, gateVars, contactVars>>

\* the four chains validate and sanitize the body; they always go on
RunValidationRules ==
    /\ ContactStage(req) = "contactValidationRules"
    /\ req' = [Passed(req, "contactValidationRules") EXCEPT
                 !.errors = ValidationErrors(req.body),
                 !.body = Sanitized(req.body)]
    /\ UNCHANGED <<call, storeVars, gateVars, contactVars>>

\* handleValidationErrors
RunHandleValidationErrors ==
    /\ ContactStage(req) = "handleValidationErrors"
    /\ req' = IF req.errors # {}
              THEN Answered(req, "handleValidationErrors", 400)
              ELSE Passed(req, "handleValidationErrors")
    /\ UNCHANGED <<call, storeVars, gateVars, contactVars>>

\* the handler up to its first await: checkEmailRateLimit, then the call of
\* sendContactEmail, which throws or waits for transporter.verify()
RunContactHandler ==
    /\ ContactStage(req) = "handler"
    /\ LET limit == CheckEmailRateLimit(emailSubmissions, req.body.email, EmailMax,
                                        EmailWindowMs, now)
       IN /\ emailSubmissions' = limit.map
          /\ req' = IF ~limit.allowed
                    THEN [Answered(req, "handler", 429) EXCEPT
                            !.retryAfter = CeilSeconds(limit.resetTime - now)]
                    ELSE IF ~SenderAccepts(req.body)
                    THEN [Answered(req, "handler", 500) EXCEPT
                            !.counted = TRUE, !.sender = "threw"]
                    ELSE [Passed(req, "handler") EXCEPT
                            !.counted = TRUE, !.sender = "verify"]
    /\ UNCHANGED <<call, storeVars, gateVars, contactHits, now, served>>

\* a variant of sendContactEmail that notes the failure of verify and goes on
VerifyFailureNoted(ok) ==
    /\ ContactStage(req) = "await" /\ req.sender = "verify"
    /\ req' = IF ok THEN [req EXCEPT !.sender = "sendMail"]
              ELSE [req EXCEPT !.sender = "unverified"]
    /\ UNCHANGED <<call, storeVars, gateVars, contactVars>>

\* transporter.verify() settles: sendMail is called, or the handler answers 500
VerifySettles(ok) ==
    /\ ContactStage(req) = "await" /\ req.sender = "verify"
    /\ req' = IF ok THEN [req EXCEPT !.sender = "sendMail"]
              ELSE [req EXCEPT !.sender = "unverified", !.stage = 0, !.status = 500]
    /\ UNCHANGED <<call, storeVars, gateVars, contactVars>>

\* transporter.sendMail() settles: the handler starts the confirmation email
\* and answers 200 without waiting for it, or answers 500
SendMailSettles(ok) ==
    /\ ContactStage(req) = "await" /\ req.sender = "sendMail"
    /\ req' = IF ok
              THEN [req EXCEPT !.sender = "sent", !.stage = 0, !.status = 200,
                               !.messageId = served, !.confirmation = "pending"]
              ELSE [req EXCEPT !.sender = "failed", !.stage = 0, !.status = 500]
    /\ UNCHANGED <<call, storeVars, gateVars, contactVars>>

\* a variant of the handler that awaits the confirmation email: its failure
\* turns the answer into 500
ConfirmationAwaited(ok) ==
    /\ "confirmation" \in DOMAIN req /\ req.confirmation = "pending"
    /\ req' = [req EXCEPT !.confirmation = IF ok THEN "sent" ELSE "failed",
                          !.status = IF ok THEN @ ELSE 500,
                          !.messageId = IF ok THEN @ ELSE 0]
    /\ UNCHANGED <<call, storeVars, gateVars, contactVars>>

\* the confirmation email settles; a failure is logged and dropped
ConfirmationSettles(ok) ==
    /\ "confirmation" \in DOMAIN req /\ req.confirmation = "pending"
    /\ req' = [req EXCEPT !.confirmation = IF ok THEN "sent" ELSE "failed"]
    /\ UNCHANGED <<call, storeVars, gateVars, contactVars>>

ContactInit ==
    /\ StoreAtRest
    /\ GateAtRest
    /\ ContactAtRest
    /\ call = NoCall

ContactNext ==
    \/ \E r \in ContactReqs : ContactRequest(r)
    \/ \E t \in Times : Advance(t)
    \/ RunContactLimiter
    \/ RunAttackPatternCheck
    \/ RunValidationRules
    \/ RunHandleValidationErrors
    \/ RunContactHandler
    \/ \E ok \in BOOLEAN : VerifySettles(ok)
    \/ \E ok \in BOOLEAN : SendMailSettles(ok)
    \/ \E ok \in BOOLEAN : ConfirmationSettles(ok)

ContactSpec == ContactInit /\ [][ContactNext]_vars

----------------------------------------------------------------------------
(* Contact pipeline with CONTACT_RATE_LIMIT_MAX unset: one client, one address *)

\* the form sent from one client address, the email typed in either case
Submissions1 ==
    { ContactReq("10.0.0.1", EmptyObj, Body(NameAna, email, MessageOk)) :
        email \in {EmailAna, EmailUpper} }

Submit(r) == Received(r, MaxSubmissions)

RunContactLimiterDefault == Limiter(ContactMaxDefault)

DefaultNext ==
    \/ \E r \in Submissions1 : Submit(r)
    \/ \E t \in Times : Advance(t)
    \/ RunContactLimiterDefault
    \/ RunAttackPatternCheck
    \/ RunValidationRules
    \/ RunHandleValidationErrors
    \/ RunContactHandler
    \/ \E ok \in BOOLEAN : VerifySettles(ok)
    \/ \E ok \in BOOLEAN : SendMailSettles(ok)
    \/ \E ok \in BOOLEAN : ConfirmationSettles(ok)

DefaultSpec == ContactInit /\ [][DefaultNext]_vars

----------------------------------------------------------------------------
(* Strings, character by character, and the regular expressions of validators.js *)

\* s[i], as a string of one character
Char(s, i) == SubSeq(s, i, i)

UpperCase == "ABCDEFGHIJKLMNOPQRSTUVWXYZ"
LowerCase == "abcdefghijklmnopqrstuvwxyz"

\* the capitals, each with its small letter
LowerOf ==
    [c \in { Char(UpperCase, i) : i \in 1 .. Len(UpperCase) } |->
        Char(LowerCase, CHOOSE i \in 1 .. Len(UpperCase) : Char(UpperCase, i) = c)]

\* one character in lower case
LowerChar(c) == IF c \in DOMAIN LowerOf THEN LowerOf[c] ELSE c

\* String.prototype.toLowerCase
RECURSIVE toLowerCase(_)
toLowerCase(s) == IF s = "" THEN "" ELSE LowerChar(Char(s, 1)) \o toLowerCase(Tail(s))

\* the character that stands for \x00 in the strings of the model
NUL == "^"

\* \s
IsSpace(c) == c \in {" ", "\t", "\n", "\r"}

WordChars == { Char("abcdefghijklmnopqrstuvwxyz0123456789_", i) : i \in 1 .. 37 }

\* \w
IsWord(c) == LowerChar(c) \in WordChars

\* the literal, in lower case, stands at position i of s; with the flag i
\* of a regular expression the case of s does not matter
StartsAtI(s, i, lit) ==
    /\ i >= 1 /\ i + Len(lit) - 1 <= Len(s)
    /\ LowerChar(Char(s, i)) = Char(lit, 1)
    /\ toLowerCase(SubSeq(s, i, i + Len(lit) - 1)) = lit

\* the same when the case matters
StartsAt(s, i, lit) ==
    i >= 1 /\ i + Len(lit) - 1 <= Len(s) /\ SubSeq(s, i, i + Len(lit) - 1) = lit

\* the first position from i on where the literal stands, 0 if there is none
RECURSIVE IndexFromI(_, _, _)
IndexFromI(s, lit, i) ==
    IF i > Len(s) THEN 0
    ELSE IF StartsAtI(s, i, lit) THEN i
    ELSE IndexFromI(s, lit, i + 1)

\* the first position from i on that holds one of the characters, 0 if none does
RECURSIVE FirstOf(_, _, _)
FirstOf(s, chars, i) ==
    IF i > Len(s) THEN 0
    ELSE IF Char(s, i) \in chars THEN i
    ELSE FirstOf(s, chars, i + 1)

\* the position after the run of blanks (\s*) that starts at i
RECURSIVE SkipSpaces(_, _)
SkipSpaces(s, i) ==
    IF i <= Len(s) /\ IsSpace(Char(s, i)) THEN SkipSpaces(s, i + 1) ELSE i

\* the position after the run of word characters (\w*) that starts at i
RECURSIVE SkipWord(_, _)
SkipWord(s, i) ==
    IF i <= Len(s) /\ IsWord(Char(s, i)) THEN SkipWord(s, i + 1) ELSE i

\* the length of the match of /<tag[^>]*>[\s\S]*?<\/tag>/i at position i,
\* 0 if there is none: the opening tag ends at the first '>', the element at
\* the first closing tag after it
Element(s, i, tag) ==
    IF ~StartsAtI(s, i, "<" \o tag) THEN 0
    ELSE LET gt == FirstOf(s, {">"}, i + 1 + Len(tag))
             close == IF gt = 0 THEN 0 ELSE IndexFromI(s, "</" \o tag \o ">", gt + 1)
         IN IF close = 0 THEN 0 ELSE close + Len(tag) + 3 - i

\* the length of the match of /\s*on\w+\s*=\s*["'][^"']*["']/i at position i
EventHandler(s, i) ==
    LET on == SkipSpaces(s, i)
        word == SkipWord(s, on + 2)
        eq == SkipSpaces(s, word)
        quote == SkipSpaces(s, eq + 1)
        close == FirstOf(s, {"\"", "'"}, quote + 1)
    IN IF /\ StartsAtI(s, on, "on") /\ word > on + 2
          /\ StartsAt(s, eq, "=")
          /\ quote <= Len(s) /\ Char(s, quote) \in {"\"", "'"}
          /\ close # 0
       THEN close + 1 - i ELSE 0

EmbedTags == << "iframe", "object", "embed", "form" >>

DangerousTags ==
    << "script", "iframe", "object", "embed", "form", "input", "textarea", "button",
       "link", "meta" >>

\* the length of the match at position i of the pattern that a step of
\* sanitizeMessage removes, 0 if it does not match there
MatchLen(pattern, s, i) ==
    CASE pattern = "script" -> Element(s, i, "script")
      [] pattern = "handler" -> EventHandler(s, i)
      [] pattern = "protocol" ->
           IF StartsAtI(s, i, "javascript:") THEN 11
           ELSE IF StartsAtI(s, i, "data:") THEN 5 ELSE 0
      [] pattern = "embed" ->
           IF \E t \in 1 .. Len(EmbedTags) : Element(s, i, EmbedTags[t]) > 0
           THEN Element(s, i, EmbedTags[CHOOSE t \in 1 .. Len(EmbedTags) :
                                            Element(s, i, EmbedTags[t]) > 0])
           ELSE 0
      [] pattern = "style" -> Element(s, i, "style")
      [] pattern = "tag" ->
           IF /\ \E t \in 1 .. Len(DangerousTags) : StartsAtI(s, i, "<" \o DangerousTags[t])
              /\ FirstOf(s, {">"}, i + 1) # 0
           THEN FirstOf(s, {">"}, i + 1) + 1 - i ELSE 0
      [] OTHER -> IF StartsAt(s, i, NUL) THEN 1 ELSE 0

\* s.replace(/pattern/g, ''), from position i on: the matches are looked for
\* from left to right in s itself, each after the end of the one before
RECURSIVE Removed(_, _, _)
Removed(pattern, s, i) ==
    IF i > Len(s) THEN ""
    ELSE LET n == MatchLen(pattern, s, i)
         IN IF n > 0 THEN Removed(pattern, s, i + n)
            ELSE Char(s, i) \o Removed(pattern, s, i + 1)

\* .replace(/</g, '&lt;').replace(/>/g, '&gt;')
RECURSIVE EscapeTags(_)
EscapeTags(s) ==
    IF s = "" THEN ""
    ELSE (CASE Char(s, 1) = "<" -> "&lt;"
            [] Char(s, 1) = ">" -> "&gt;"
            [] OTHER -> Char(s, 1)) \o EscapeTags(Tail(s))

\* .replace(/\s+/g, ' ')
RECURSIVE CollapseSpaces(_)
CollapseSpaces(s) ==
    IF s = "" THEN ""
    ELSE IF IsSpace(Char(s, 1)) THEN " " \o CollapseSpaces(SubSeq(s, SkipSpaces(s, 1), Len(s)))
    ELSE Char(s, 1) \o CollapseSpaces(Tail(s))

\* String.prototype.trim
RECURSIVE trim(_)
trim(s) ==
    IF s = "" THEN ""
    ELSE IF IsSpace(Char(s, 1)) THEN trim(Tail(s))
    ELSE IF IsSpace(Char(s, Len(s))) THEN trim(SubSeq(s, 1, Len(s) - 1))
    ELSE s

\* sanitizeMessage, on a string
sanitizeMessage(text) ==
    IF text = "" THEN ""
    ELSE LET noScript == Removed("script", text, 1)
             noHandler == Removed("handler", noScript, 1)
             noProtocol == Removed("protocol", noHandler, 1)
             noEmbed == Removed("embed", noProtocol, 1)
             noStyle == Removed("style", noEmbed, 1)
             noTag == Removed("tag", noStyle, 1)
             escaped == EscapeTags(noTag)
             noNul == Removed("nul", escaped, 1)
         IN trim(CollapseSpaces(noNul))

----------------------------------------------------------------------------
(* sanitizeMessage called on its own result *)

\* the pieces the messages are made of
MessagePieces ==
    { "a", " ", "<", NUL, "java", "script:", "javascript:", "DATA:",
      "<script>", "</script>", "<form a>", "</form>", "<style>", "</style>",
      " onclick='a'" }

\* the strings made of at most n pieces
RECURSIVE Pieced(_, _)
Pieced(pieces, n) ==
    IF n = 0 THEN {""}
    ELSE Pieced(pieces, n - 1) \cup { s \o p : s \in Pieced(pieces, n - 1), p \in pieces }

Messages == Pieced(MessagePieces, MaxPieces)

SanitizeInit ==
    /\ StoreAtRest
    /\ GateAtRest
    /\ ContactAtRest
    /\ call \in { [fn |-> "sanitizeMessage", arg |-> text, results |-> <<>>] :
                    text \in Messages }

\* sanitizeMessage is called on the message, then on what it returned
Sanitize ==
    /\ call.fn = "sanitizeMessage"
    /\ Len(call.results) < 2
    /\ call' = [call EXCEPT !.results =
                  Append(@, sanitizeMessage(IF @ = <<>> THEN call.arg ELSE @[Len(@)]))]
    /\ UNCHANGED <<storeVars, gateVars, req, contactVars>>

SanitizeNext == Sanitize

SanitizeSpec == SanitizeInit /\ [][SanitizeNext]_vars

----------------------------------------------------------------------------
(* isValidEmail *)

\* the values isValidEmail may be given: a string, null, undefined
StringValue(s) == [type |-> "string", text |-> s]
Null == [type |-> "null", text |-> ""]
UndefinedValue == [type |-> "undefined", text |-> ""]

\* String(value), which RegExp.prototype.test applies to its argument
StringOf(value) ==
    CASE value.type = "null" -> "null"
      [] value.type = "undefined" -> "undefined"
      [] OTHER -> value.text

\* the positions of a string that hold the character
Positions(s, c) == { i \in 1 .. Len(s) : Char(s, i) = c }

\* /^[^\s@]+@[^\s@]+\.[^\s@]+$/.test(s): no blank, one '@' with something
\* before it, and after it a '.' with something on both sides
EmailRegexTest(s) ==
    /\ \A i \in 1 .. Len(s) : ~IsSpace(Char(s, i))
    /\ Cardinality(Positions(s, "@")) = 1
    /\ LET at == CHOOSE i \in Positions(s, "@") : TRUE
       IN /\ at > 1
          /\ \E dot \in Positions(s, ".") : at + 1 < dot /\ dot < Len(s)

\* email.split('@')[1] of a string that holds '@': the text between the
\* first '@' and the next one, or the end
SplitAt1(s) ==
    LET first == FirstOf(s, {"@"}, 1)
        next == FirstOf(s, {"@"}, first + 1)
    IN SubSeq(s, first + 1, IF next = 0 THEN Len(s) ELSE next - 1)

DisposableDomains ==
    { "tempmail.com", "throwaway.com", "mailinator.com", "guerrillamail.com",
      "yopmail.com", "fakeemail.com", "sharklasers.com", "getairmail.com" }

\* a variant of isValidEmail that compares the domain as it is written
isValidEmailAsWritten(email) ==
    /\ EmailRegexTest(StringOf(email))
    /\ SplitAt1(email.text) \notin DisposableDomains

isValidEmail(email) ==
    /\ EmailRegexTest(StringOf(email))
    /\ toLowerCase(SplitAt1(email.text)) \notin DisposableDomains

\* the pieces the addresses are made of
EmailPieces ==
    { "test", "<", ",", " ", "@", ".", "example", ".com", "@example.com",
      "@example.", "@mailinator.com", "@YopMail.COM" }

Emails ==
    { StringValue(s) : s \in Pieced(EmailPieces, MaxPieces) } \cup {Null, UndefinedValue}

EmailInit ==
    /\ StoreAtRest
    /\ GateAtRest
    /\ ContactAtRest
    /\ call \in { [fn |-> "isValidEmail", arg |-> email, results |-> <<>>] :
                    email \in Emails }

\* isValidEmail is called on the value
Validate ==
    /\ call.fn = "isValidEmail"
    /\ call.results = <<>>
    /\ call' = [call EXCEPT !.results = << isValidEmail(call.arg) >>]
    /\ UNCHANGED <<storeVars, gateVars, req, contactVars>>

EmailNext == Validate

EmailSpec == EmailInit /\ [][EmailNext]_vars

----------------------------------------------------------------------------
(* Properties *)

InFlight == BagCardinality(pending)

\* the step just taken is the part of add / update / delete that changed the list
Mutated(op) == last.act = op /\ last.outcome = "await"

\* C1: no two records of the in-memory list have the same id, after init and
\* after any sequence of add, update and delete calls, however their file
\* rewrites interleave.
UniqueIds ==
    \A i, j \in DOMAIN records : i # j => records[i].id # records[j].id

\* C1 witness: a loaded store holding two records after three calls, two of
\* them still suspended in their rewrite
UniqueIdsWitness ==
    /\ initialized
    /\ Len(records) = 2
    /\ ops = 3
    /\ InFlight = 2

\* C2: add gives the new record the id max(ids in memory) + 1, or 1 on an empty
\* list, appends exactly that record to the end of the list, and the call
\* returns that record.
AddAppendsNextId ==
    [][ /\ Mutated("add")' =>
            LET rec == last'.ret IN
            /\ records' = records \o <<rec>>
            /\ last'.id = rec.id
            /\ \A i \in DOMAIN records : records[i].id < rec.id
            /\ IF records = <<>> THEN rec.id = 1
               ELSE \E i \in DOMAIN records : rec.id = records[i].id + 1
            /\ \A k \in DOMAIN last'.arg : k \in DOMAIN rec
            /\ BagIn(Call("add", rec.id, Stringify(records'), rec, TRUE), pending')
        /\ (last'.act = "return" /\ last'.op = "add") =>
            /\ last'.ret.id = last'.id
            /\ \E c \in BagToSet(pending) : c.op = "add" /\ c.ret = last'.ret
      ]_vars

\* C2 witness: an add on a list that holds records has returned its record
AddAppendsNextIdWitness ==
    /\ last.act = "return"
    /\ last.op = "add"
    /\ last.ret.id = 2
    /\ Len(records) = 2
    /\ records[2] = last.ret

\* C3: an id assigned by add and then removed by delete is never assigned by a
\* later add.
NoIdReuse ==
    [][ Mutated("add")' => idlog[last'.id] # "retired" ]_vars

\* C4: delete of an existing id removes exactly that record, leaves the other
\* records and their order as they were, returns the removed record, and
\* getById of the id finds nothing right after.
DeleteRemovesOne ==
    [][ /\ Mutated("delete")' =>
            /\ \E i \in DOMAIN records :
                  /\ records[i].id = last'.id
                  /\ last'.ret = records[i]
                  /\ Len(records') = Len(records) - 1
                  /\ \A j \in DOMAIN records' :
                        records'[j] = IF j < i THEN records[j] ELSE records[j + 1]
            /\ GetById(records', last'.id) = <<>>
            /\ BagIn(Call("delete", last'.id, Stringify(records'), last'.ret, TRUE), pending')
        /\ (last'.act = "return" /\ last'.op = "delete") =>
            /\ last'.ret.id = last'.id
            /\ \E c \in BagToSet(pending) : c.op = "delete" /\ c.ret = last'.ret
      ]_vars

\* C4 witness: the first of two records was deleted and the call returned it
DeleteRemovesOneWitness ==
    /\ last.act = "return"
    /\ last.op = "delete"
    /\ last.ret.id = 1
    /\ Len(records) = 1
    /\ records[1].id = 2

\* the call whose write has just settled, as it was suspended
Settled(c) ==
    /\ c \in BagToSet(pending)
    /\ pending' = pending (-) SetToBag({c})
    /\ c.op = last'.op
    /\ c.id = last'.id
    /\ c.clean = last'.clean

\* C5, as stated: whenever add, update or delete returns successfully, the
\* file holds the in-memory list as it is at that moment, however concurrent
\* mutations interleave.
DiskEqualsMemoryOnReturn ==
    last.act = "return" => file = Ok(Stringify(records))

\* C5, amended: when add, update or delete returns successfully, the file holds
\* the text of the list as it was when the call's _save started; it equals the
\* in-memory list at that moment if nothing else changed the list while the
\* call was suspended.
DiskEqualsSnapshotOnReturn ==
    [][ last'.act = "return" =>
            /\ \E c \in BagToSet(pending) :
                  Settled(c) /\ c.ret = last'.ret /\ file' = Ok(c.snap)
            /\ last'.clean => file' = Ok(Stringify(records'))
      ]_vars

\* C5 witness: a call returned successfully, undisturbed, while an earlier
\* call is still suspended, and the file holds the list
DiskEqualsSnapshotWitness ==
    /\ last.act = "return"
    /\ last.clean
    /\ InFlight = 1
    /\ Len(records) >= 1
    /\ file = Ok(Stringify(records))

\* C6: each rewrite carries the text of the list taken when its _save
\* started and keeps it while it is suspended; a rewrite that completes leaves
\* exactly its text in the file, and nothing but a settling write changes the
\* file, so that the file ends with the text of the rewrite that completed last.
LastRewriteWins ==
    [][ /\ (last'.act \in {"add", "update", "delete"} /\ last'.outcome = "await") =>
            \E c \in BagToSet(pending') :
                /\ c = Call(last'.act, last'.id, Stringify(records'), last'.ret, TRUE)
                /\ pending' = Disturbed(pending) (+) SetToBag({c})
        /\ last'.act \notin {"return", "throw"} =>
            \A c \in BagToSet(pending) :
                \E d \in BagToSet(pending') :
                    d.op = c.op /\ d.id = c.id /\ d.snap = c.snap /\ d.ret = c.ret
        /\ last'.act = "return" =>
            \E c \in BagToSet(pending) : Settled(c) /\ file' = Ok(c.snap)
        /\ file' # file => last'.act \in {"return", "throw", "initCreate", "initDone"}
      ]_vars

\* C6 witness: two mutations overlapped, both returned successfully, no rewrite
\* is left, and the file lacks the record the later one added
LostUpdateWitness ==
    /\ ops = 2
    /\ oks = 2
    /\ InFlight = 0
    /\ last.act = "return"
    /\ ~last.clean
    /\ file.state = "ok"
    /\ Len(file.text) < Len(records)
    /\ records[Len(records)].id \notin Ids(file.text)

Answers(status) ==
    IF store = "projects" /\ last'.op = "update" THEN last'.status = 0
    ELSE last'.status = status

\* C8: update and delete with an id that no record has return null, leave the
\* list as it is and start no rewrite; the route answers 404.
NotFoundChangesNothing ==
    [][ last'.act \in {"update", "delete"} =>
            IF last'.id \in Ids(records)
            THEN last'.outcome = "await"
            ELSE /\ last'.outcome = "null"
                 /\ last'.ret = NoRec
                 /\ records' = records
                 /\ pending' = pending
                 /\ file' = file
                 /\ Answers(404)
      ]_vars

\* C8 witness: a delete of an id that no record has, on a list that holds
\* records, was answered 404
NotFoundWitness ==
    /\ last.act = "delete"
    /\ last.outcome = "null"
    /\ last.status = 404
    /\ last.id = MaxId + 1
    /\ Len(records) >= 1

\* C9, as stated: update merges the patch over the record such that a patch
\* field whose value is undefined does not overwrite the field; fields absent
\* from the patch keep their value; both records are returned.
UndefinedDoesNotOverwrite ==
    [][ Mutated("update")' =>
            LET old == last'.ret.old
                updated == last'.ret.updated
                patch == last'.arg
            IN /\ GetById(records, last'.id) = <<old>>
               /\ GetById(records', last'.id) = <<updated>>
               /\ \A k \in DOMAIN patch :
                     IF patch[k] = Undefined
                     THEN k \in DOMAIN old => updated[k] = old[k]
                     ELSE updated[k] = patch[k]
               /\ \A k \in DOMAIN old \ DOMAIN patch : updated[k] = old[k]
      ]_vars

\* C9, amended: update merges the patch over the record: every property of
\* the patch overwrites the field, an undefined one too; fields absent from
\* the patch keep their value; both records are returned. The PUT route of the
\* articles leaves every falsy request field out of the patch.
PatchOverwrites ==
    [][ /\ Mutated("update")' =>
            LET old == last'.ret.old
                updated == last'.ret.updated
                patch == last'.arg
            IN /\ \E i \in DOMAIN records :
                     /\ records[i] = old
                     /\ old.id = last'.id
                     /\ \A j \in 1 .. (i - 1) : records[j].id # last'.id
                     /\ Len(records') = Len(records)
                     /\ \A j \in DOMAIN records :
                           records'[j] = IF j = i THEN updated ELSE records[j]
               /\ DOMAIN updated = DOMAIN old \cup DOMAIN patch
               /\ \A k \in DOMAIN patch : updated[k] = patch[k]
               /\ \A k \in DOMAIN old \ DOMAIN patch : updated[k] = old[k]
               /\ store = "articles" => \A k \in DOMAIN patch : Truthy(patch[k])
        /\ (last'.act = "return" /\ last'.op = "update") =>
            \E c \in BagToSet(pending) : Settled(c) /\ c.ret = last'.ret
      ]_vars

\* C9 witness: a patch whose title is undefined was merged over a record with
\* a title, and the optional field, absent from the patch, is still there
PatchOverwritesWitness ==
    /\ Mutated("update")
    /\ last.arg = [title |-> Undefined]
    /\ last.ret.old["title"] = "t1"
    /\ last.ret.updated["title"] = Undefined
    /\ OptKey(store) \in DOMAIN last.ret.updated
    /\ last.ret.updated[OptKey(store)] = "v1"

\* C10: update applied a second time in a row with the same id and patch
\* leaves the list as the first application left it.
UpdateTwiceIsOnce ==
    [][ (last'.act = "update" /\ last'.repeat) => records' = records ]_vars

\* C10 witness: the same patch was applied twice in a row to a record
UpdateTwiceWitness ==
    /\ Mutated("update")
    /\ last.repeat
    /\ last.arg = [title |-> "t2"]
    /\ last.ret.old = last.ret.updated
    /\ InFlight = 2

\* C11: once an init call has completed, a later init call returns at once:
\* it starts no read of the file and leaves the list, the flag and the file as
\* they are, also after the list was mutated or the file rewritten.
InitIsIdempotent ==
    [][ (last'.act = "init" /\ initialized) =>
            /\ last'.outcome = "ok"
            /\ initPc' = "idle"
            /\ records' = records
            /\ initialized'
            /\ file' = file
            /\ pending' = pending
      ]_vars

\* C11 witness: init was called again on a loaded store whose list no longer
\* is what the file holds, and returned at once
InitIsIdempotentWitness ==
    /\ last.act = "init"
    /\ last.outcome = "ok"
    /\ initialized
    /\ initPc = "idle"
    /\ ops >= 1
    /\ file.state = "ok"
    /\ Stringify(records) # file.text

----------------------------------------------------------------------------
(* Properties of the Admin Gate *)

\* adminAuth runs in this step
Gated == Stage(req) = "adminAuth" /\ req' # req

\* the client IP is in the allowlist the gate uses at this step
InAllowlist == Includes(allowedIps', req.ip)

\* the development-mode exemption of localhost that the first definition has
LocalDevException ==
    /\ adminAuthDef = "first"
    /\ EnvGet(env, "NODE_ENV") # "production"
    /\ req.ip \in {"127.0.0.1", "::1", "::ffff:127.0.0.1"}

\* the request carries a well-formed header whose token is the expected one
ValidBearer(r) ==
    /\ Len(r.auth) >= 2
    /\ r.auth[1] = "Bearer"
    /\ ExpectedToken(adminAuthDef, env) \notin {Undefined, ""}
    /\ r.auth[2] = ExpectedToken(adminAuthDef, env)

\* C13, as stated: a request whose client IP is not in the allowlist, the
\* allowlist not being the wildcard, is answered 403 without the Authorization
\* header being read, and next() is not called.
IpNotAllowedIs403 ==
    [][ (Gated /\ allowedIpsStr' # Wildcard /\ ~InAllowlist) =>
            /\ req'.status = 403
            /\ ~req'.nexted
            /\ ~req'.authRead
      ]_vars

\* C13, amended: the same, for every request outside the development-mode
\* exemption of localhost of the first definition; a request under the exemption
\* goes on to the token check.
IpNotAllowedIs403UnlessLocalDev ==
    [][ (Gated /\ allowedIpsStr' # Wildcard /\ ~InAllowlist) =>
            IF LocalDevException
            THEN req'.authRead /\ req'.status # 403
            ELSE /\ req'.status = 403
                 /\ req'.stage = 0
                 /\ req'.event = "admin_ip_blocked"
                 /\ ~req'.nexted
                 /\ ~req'.authRead
      ]_vars

\* C13 witness: a request with the expected token from an address outside the
\* allowlist was answered 403 and its header was not read
IpNotAllowedWitness ==
    /\ req.status = 403
    /\ req.stage = 0
    /\ ~req.authRead
    /\ ~req.nexted
    /\ req.ip = "10.0.0.2"
    /\ allowedIps = <<"10.0.0.1">>
    /\ EnvGet(env, "ADMIN_TOKEN") = "secret"
    /\ req.auth = <<"Bearer", "secret">>

\* C14: for a request that passes the IP check, adminAuth calls next() exactly
\* when the header is present, starts with 'Bearer ' and its token equals the
\* expected token; otherwise it answers 401. In production with no ADMIN_TOKEN
\* set, no request gets through.
NextIffValidBearer ==
    [][ Gated =>
            /\ (allowedIpsStr' = Wildcard \/ InAllowlist \/ LocalDevException) =>
                  /\ req'.nexted <=> ValidBearer(req)
                  /\ req'.nexted => (req'.status = 0 /\ req'.stage = req.stage + 1)
                  /\ ~req'.nexted => (req'.status = 401 /\ req'.stage = 0)
                  /\ req'.authRead
            /\ (EnvGet(env, "NODE_ENV") = "production"
                  /\ EnvGet(env, "ADMIN_TOKEN") \in {Undefined, ""}) => ~req'.nexted
            /\ (EnvGet(env, "NODE_ENV") = "production" /\ req'.nexted) =>
                  req.auth[2] = EnvGet(env, "ADMIN_TOKEN")
      ]_vars

\* C14 witness: in production a request from an allowlisted address with the
\* configured token got through
NextIffValidBearerWitness ==
    /\ req.nexted
    /\ req.status = 0
    /\ req.stage = 2
    /\ EnvGet(env, "NODE_ENV") = "production"
    /\ req.ip = "10.0.0.1"
    /\ allowedIps = <<"10.0.0.1">>
    /\ req.auth = <<"Bearer", "secret">>

\* C15, as stated: every admin request without a valid bearer token is answered
\* 401, on both routers and for every method.
NoValidBearerIs401 ==
    [][ (Gated /\ ~ValidBearer(req)) => req'.status = 401 ]_vars

\* C15, amended: every admin request without a valid bearer token is rejected
\* by the gate, on both routers and for every method, routed or not: with 403
\* when the IP check fails, with 401 otherwise.
NoValidBearerIsRejected ==
    [][ (Gated /\ ~ValidBearer(req)) =>
            /\ req.stage = 1
            /\ ~req'.nexted
            /\ req'.stage = 0
            /\ req'.status \in {401, 403}
            /\ req'.status = 403 <=>
                  /\ allowedIpsStr' # Wildcard
                  /\ ~InAllowlist
                  /\ ~LocalDevException
            /\ req'.status = 401 => req'.event \in {"admin_auth_missing", "admin_auth_failed"}
      ]_vars

\* C15 witness: a request without a header for a method the router has no
\* route for, from an allowlisted address, was answered 401
NoValidBearerWitness ==
    /\ req.status = 401
    /\ req.stage = 0
    /\ req.router = "projects"
    /\ req.method = "PUT"
    /\ req.auth = <<>>
    /\ req.ip = "10.0.0.1"
    /\ allowedIps = <<"10.0.0.1">>

\* C16: the gate runs before multer and before the handler: a request the
\* gate rejected has no upload parsed and no store operation invoked, and
\* multer and the handlers only see requests for which next() was called.
GateBeforeUploadAndHandler ==
    /\ req.status \in {401, 403} =>
          /\ ~req.uploaded
          /\ req.storeOp = "none"
          /\ req.stage = 0
          /\ ~req.nexted
    /\ (req.uploaded \/ req.storeOp # "none" \/ Stage(req) \in {"upload", "handler", "notFound"}) =>
          req.nexted

\* C16 witness: a POST with a file to parse was rejected by the gate with 401
GateBeforeUploadWitness ==
    /\ req.method = "POST"
    /\ req.status = 401
    /\ req.stage = 0
    /\ ~req.uploaded
    /\ req.storeOp = "none"

----------------------------------------------------------------------------
(* Properties of the contact pipeline *)

\* the request being handled is a contact request
IsContact == "received" \in DOMAIN req

\* the stages run so far are the first stages of the order given
RanInOrder(r, order) == Len(r.ran) <= Len(order) /\ r.ran = SubSeq(order, 1, Len(r.ran))

\* C17: on POST /api/contact the Notification Sender is invoked only after
\* the IP rate limit, the attack-pattern scan, the field validation and the
\* per-email rate limit have all passed, in this order; a request rejected at
\* a stage reaches no later stage and never the sender.
SenderOnlyAfterAllStages ==
    IsContact =>
        /\ RanInOrder(req, << "contactLimiter", "attackPatternCheck",
                              "contactValidationRules", "handleValidationErrors",
                              "handler" >>)
        /\ req.sender # "none" =>
              /\ Len(req.ran) = 5
              /\ ~CheckObject(req.query) /\ ~CheckObject(req.received)
              /\ req.errors = {}
              /\ req.counted
        /\ req.status \in {400, 403, 429} =>
              /\ req.sender = "none"
              /\ req.stage = 0
              /\ Len(req.ran) = CASE req.status = 403 -> 2
                                  [] req.status = 400 -> 4
                                  [] OTHER -> IF req.retryAfter = 0 THEN 1 ELSE 5

\* the sender delivered the mail of a request, and the request was answered 200
SenderOnlyAfterAllStagesWitness ==
    IsContact /\ req.sender = "sent" /\ req.status = 200 /\ Len(req.ran) = 5

\* the hits contactLimiter holds for the keys given
RECURSIVE SumHits(_)
SumHits(keys) ==
    IF keys = {} THEN 0
    ELSE LET k == CHOOSE x \in keys : TRUE
         IN contactHits[k].hits + SumHits(keys \ {k})

\* the submissions of a client address that contactLimiter has counted in
\* windows still open: all of them were made within the last hour
IpHitsInWindow(ip) ==
    SumHits({ k \in LimiterKeys : k[1] = ip /\ now < contactHits[k].resetTime })

\* C18: the first rate limit of the contact pipeline is keyed by the client's
\* address: a submission of an address that has already made the maximum
\* number of submissions in the window is answered 429 by the limiter and
\* reaches no further stage, whatever email it carries.
LimitedByIp ==
    (IsContact /\ Len(req.ran) >= 1 /\ IpHitsInWindow(req.ip) > MaxContactHits) =>
        req.status = 429 /\ req.ran = << "contactLimiter" >>

\* the requests in which a string of the query or of the body matches one of
\* the five patterns: the SQL text in the email, '--' and 'update' in the
\* name and the message, the parentheses of the phone, '../' two objects deep
\* in the body or in the query
Hostile(r) ==
    \/ r.query = [ref |-> NoteTraversal]
    \/ r.received \in { Body(NameAna, EmailDrop, MessageOk),
                        Body(NameDashes, EmailAna, MessageUpdate),
                        WithPhone(PlainBody, PhoneParens),
                        WithNested(PlainBody, NoteTraversal) }

\* C19 as stated: a contact request in which a string of the query or of the
\* body, at any nesting depth, matches an attack pattern is answered 403.
AttackIs403 ==
    (IsContact /\ Hostile(req) /\ req.status # 0) => req.status = 403

\* C19: a contact request in which a string of the query or of the body, at
\* any nesting depth, matches an attack pattern, and which the first rate
\* limiter lets through, is answered 403 by the attack-pattern stage; one the
\* limiter stops is answered 429. Either way the validators, the per-email
\* limiter and the sender never run, and the per-email count is not consumed.
AttackStopsAtScan ==
    (IsContact /\ Hostile(req)) =>
        /\ RanInOrder(req, << "contactLimiter", "attackPatternCheck" >>)
        /\ req.status = CASE Len(req.ran) = 2 -> 403
                          [] Len(req.ran) = 1 /\ req.stage = 0 -> 429
                          [] OTHER -> 0
        /\ req.body = req.received /\ req.errors = {}
        /\ ~req.counted
        /\ req.sender = "none" /\ req.confirmation = "none"

\* the scan answered 403 to a request whose only matching string lies two
\* objects deep in the body, after the email of the request had been counted
\* once for an earlier request
AttackStopsAtScanWitness ==
    /\ IsContact /\ req.received = WithNested(PlainBody, NoteTraversal)
    /\ req.status = 403
    /\ "ana@example.com" \in DOMAIN emailSubmissions
    /\ Len(emailSubmissions["ana@example.com"]) = 1

\* the request carries the fields of the form and nothing else
FormOnly(r) ==
    r.query = EmptyObj /\ DOMAIN r.received \subseteq {"name", "email", "phone", "message"}

\* C20: every contact submission whose fields satisfy the validation rules
\* (name, email, optional phone, message) and which is within both rate
\* limits is answered 200 with a messageId, provided the mail transport
\* succeeds.
ValidIsDelivered ==
    ( /\ IsContact /\ FormOnly(req)
      /\ ValidationErrors(req.received) = {}
      /\ req.stage = 0 /\ req.status # 0
      /\ req.status # 429
      /\ req.sender \notin {"unverified", "failed"} ) =>
        req.status = 200 /\ req.messageId # 0

\* the submissions contactLimiter has counted in windows still open, under
\* any key: all of them were made within the last hour
HitsInWindow == SumHits({ k \in LimiterKeys : now < contactHits[k].resetTime })

\* the times of the submissions counted for the email of the request, in any
\* case of its letters, less than an hour ago
CountedInWindow(r) ==
    LET key == IF r.body.email.text = "Ana@Example.com" THEN "ana@example.com"
               ELSE r.body.email.text
        times == IF key \in DOMAIN emailSubmissions THEN emailSubmissions[key] ELSE <<>>
    IN { i \in DOMAIN times : now - times[i] < 60 * 60 * 1000 }

\* the seconds, rounded up, until the oldest of these submissions is an hour old
SecondsToExpiry(r) ==
    LET key == IF r.body.email.text = "Ana@Example.com" THEN "ana@example.com"
               ELSE r.body.email.text
        oldest == CHOOSE i \in CountedInWindow(r) :
                      \A j \in CountedInWindow(r) :
                          emailSubmissions[key][i] <= emailSubmissions[key][j]
        ms == emailSubmissions[key][oldest] + 60 * 60 * 1000 - now
    IN CHOOSE n \in 1 .. 3600 : (n - 1) * 1000 < ms /\ ms <= n * 1000

ConfirmationKeepsResponse ==
    IsContact =>
        /\ req.confirmation # "none" => req.sender = "sent"
        /\ req.sender = "sent" =>
              /\ req.status = 200 /\ req.messageId # 0
              /\ req.confirmation \in {"pending", "sent", "failed"}
        /\ req.sender # "sent" => req.status # 200 /\ req.messageId = 0

\* the confirmation email of a request answered 200 has failed
ConfirmationKeepsResponseWitness ==
    IsContact /\ req.sender = "sent" /\ req.confirmation = "failed" /\ req.status = 200

\* C23: sendContactEmail verifies the transport before sending: when verify
\* fails, sendMail is never called for that submission, the function throws,
\* no confirmation email is attempted, and the handler answers 500.
VerifyFailureIs500 ==
    IsContact =>
        /\ req.sender = "unverified" =>
              /\ req.status = 500 /\ req.stage = 0
              /\ req.messageId = 0
              /\ req.confirmation = "none"
        /\ req.sender \in {"sendMail", "sent", "failed"} => Len(req.ran) = 5 /\ req.counted
        /\ ENABLED SendMailSettles(TRUE) => req.sender = "sendMail"

\* verify failed for a submission that had passed every stage and been counted
VerifyFailureIs500Witness ==
    IsContact /\ req.sender = "unverified" /\ req.status = 500 /\ req.counted

----------------------------------------------------------------------------
(* Properties of the functions of validators.js *)

\* C24: the message sanitizer is idempotent: for every input string,
\* sanitizeMessage(sanitizeMessage(x)) equals sanitizeMessage(x).
SanitizeIdempotent ==
    (call.fn = "sanitizeMessage" /\ Len(call.results) = 2) =>
        call.results[2] = call.results[1]

\* isValidEmail has returned for the value given
Validated == call.fn = "isValidEmail" /\ Len(call.results) = 1

\* the text after the '@' of an address that holds exactly one
DomainPart(s) == SubSeq(s, (CHOOSE i \in Positions(s, "@") : TRUE) + 1, Len(s))

\* two strings are equal when the case of their letters is left aside
SameButCase(s, t) ==
    /\ Len(s) = Len(t)
    /\ \A i \in 1 .. Len(s) :
          \/ Char(s, i) = Char(t, i)
          \/ \E k \in 1 .. 26 : {Char(s, i), Char(t, i)} = {Char(UpperCase, k), Char(LowerCase, k)}

\* C25: isValidEmail returns false for every address whose domain part,
\* compared case-insensitively, is one of the listed disposable domains, even
\* when the address is otherwise well-formed.
DisposableIsInvalid ==
    ( /\ Validated /\ call.arg.type = "string"
      /\ Cardinality(Positions(call.arg.text, "@")) = 1
      /\ \E d \in { "tempmail.com", "throwaway.com", "mailinator.com", "guerrillamail.com",
                    "yopmail.com", "fakeemail.com", "sharklasers.com", "getairmail.com" } :
            SameButCase(DomainPart(call.arg.text), d) ) =>
        call.results[1] = FALSE

\* isValidEmail has returned false for test@YopMail.COM
DisposableIsInvalidWitness ==
    Validated /\ call.arg = StringValue("test@YopMail.COM") /\ call.results[1] = FALSE

\* the address is malformed in one of the ways listed: it is empty, null or
\* undefined, has no '@' or several, nothing before or after the '@', a blank
\* or a comma, a '<' before the '@', or two dots in a row after it
Malformed(email) ==
    \/ email.type # "string"
    \/ email.text = ""
    \/ Cardinality(Positions(email.text, "@")) # 1
    \/ \E i \in 1 .. Len(email.text) : Char(email.text, i) \in {" ", ","}
    \/ LET at == CHOOSE i \in Positions(email.text, "@") : TRUE
       IN \/ at = 1
          \/ at = Len(email.text)
          \/ \E i \in 1 .. (at - 1) : Char(email.text, i) = "<"
          \/ \E i \in (at + 1) .. (Len(email.text) - 1) :
                SubSeq(email.text, i, i + 1) = ".."

\* C26: isValidEmail returns false for every malformed address: empty, null
\* or undefined input, no '@' or more than one '@', empty local part or empty
\* domain, whitespace or comma in the address, an unescaped special character
\* such as '<' in the local part, and consecutive dots in the domain.
MalformedIsInvalid ==
    (Validated /\ Malformed(call.arg)) => call.results[1] = FALSE

----------------------------------------------------------------------------
(* Properties of the stores under overlapping calls *)

\* C27: two add calls issued concurrently on the same store always receive
\* distinct ids, however their file rewrites interleave: an add issued while
\* another add is still suspended in its rewrite gets an id other than the id
\* of that add.
ConcurrentAddsDistinct ==
    [][ Mutated("add")' =>
            \A c \in BagToSet(pending) : c.op = "add" => c.id # last'.id ]_vars

\* C28: a record whose add has returned successfully stays in the list that
\* getProjects / getArticles returns until a delete of its id is performed,
\* under every interleaving of overlapping mutations, also when the add runs
\* while an init call is still in flight.
AddedStays ==
    \A id \in DOMAIN idlog :
        idlog[id] = "returned" => \E i \in DOMAIN records : records[i].id = id

\* the ids of the adds that threw: assigned by an add that is no longer
\* suspended in its rewrite and did not return its record, and not deleted since
FailedAdds ==
    { id \in DOMAIN idlog :
        /\ idlog[id] = "assigned"
        /\ \A c \in BagToSet(pending) : ~(c.op = "add" /\ c.id = id) }

\* C29: after a mutation whose rewrite failed, the next mutation whose rewrite
\* succeeds writes the whole in-memory list: when a call that no other
\* mutation overlapped since its rewrite started returns successfully, the
\* file holds the text of the list as it is in memory, and with it the record
\* of every add that threw and was not deleted.
FailedChangeBecomesDurable ==
    [][ (last'.act = "return" /\ last'.clean) =>
            /\ file' = Ok(Stringify(records'))
            /\ \A id \in FailedAdds : id \in Ids(file'.text) /\ id \in Ids(records')
      ]_vars

\* C29 witness: an add threw, the next add returned successfully with no
\* call overlapping it, and the file holds both records as memory does
FailedChangeBecomesDurableWitness ==
    /\ last.act = "return"
    /\ last.op = "add"
    /\ last.clean
    /\ InFlight = 0
    /\ ops = 2
    /\ oks = 1
    /\ FailedAdds # {}
    /\ FailedAdds \subseteq Ids(file.text)
    /\ last.id \notin FailedAdds
    /\ file = Ok(Stringify(records))

----------------------------------------------------------------------------
(* Properties of the Admin Gate's allowlist *)

\* process.env.ADMIN_ALLOWED_IPS is unset or '' and no string is kept from an
\* earlier request
NoAllowlist ==
    /\ allowedIpsStr = EmptyStr
    /\ "ADMIN_ALLOWED_IPS" \in DOMAIN env => env["ADMIN_ALLOWED_IPS"] = EmptyStr

\* C30: the Admin Gate fails closed on the allowlist: when ADMIN_ALLOWED_IPS is
\* unset or empty, every request outside the development-mode exemption of
\* localhost is answered 403; the IP check is disabled only when the value is
\* exactly '*'; and once a non-empty allowlist has been parsed the gate keeps
\* using it for all later requests, whatever the environment holds by then.
AllowlistFailsClosed ==
    [][ /\ (Gated /\ ~LocalDevException) =>
            /\ NoAllowlist => (req'.status = 403 /\ ~req'.nexted)
            /\ allowedIpsStr' = Wildcard => req'.status # 403
            /\ (allowedIpsStr' # Wildcard /\ ~InAllowlist) => req'.status = 403
        /\ allowedIps # <<>> =>
            /\ allowedIpsStr' = allowedIpsStr
            /\ allowedIps' = allowedIps
      ]_vars

\* C30 witness: the gate parsed '10.0.0.1' at an earlier request; the
\* environment now says '*', and a request from another address is answered
\* 403 by the list the gate kept
AllowlistKeptWitness ==
    /\ allowedIps = <<"10.0.0.1">>
    /\ "ADMIN_ALLOWED_IPS" \in DOMAIN env
    /\ env["ADMIN_ALLOWED_IPS"] = Wildcard
    /\ req.ip = "10.0.0.2"
    /\ req.status = 403
    /\ req.event = "admin_ip_blocked"

====
